---- MODULE Spec2Model ----
(***************************************************************************)
(* Peering of kopf operators (kopf/engines/peering.py).                    *)
(*                                                                         *)
(* One operator ("self") is modelled in full: its keepalive task, which    *)
(* announces the operator in the status of the shared peering object, and  *)
(* its process_peering_event handler, which parses that status and drives  *)
(* the freeze-mode toggle.  The other operators are the peers that write   *)
(* their own entries into the same status with the same touch(); where     *)
(* the operators are taken together, each peer also runs the handler,      *)
(* under its own identity and priority, on its own freeze-mode toggle.     *)
(*                                                                         *)
(* Time is the wall clock datetime.utcnow() in whole seconds.  The code     *)
(* reads times only through lastseen + lifetime <= utcnow() and through    *)
(* the length of a sleep, so the clock is kept in the window 0..MaxTime:   *)
(* once it stands at MaxTime a tick moves every stored time one second     *)
(* into the past instead (a time at 0 is MaxTime or more seconds old,      *)
(* which is older than any lifetime).                                      *)
(*                                                                         *)
(* Every call of patching.patch_obj is a suspension point with three       *)
(* outcomes: the patched body ("ok"), None ("absent": the object is        *)
(* gone), or a raised exception.                                           *)
(***************************************************************************)
EXTENDS Integers, Sequences, FiniteSets, TLC

\* ------------------------------------------------------------------ bounds
MaxTime == 2
MaxPrio == 2
MaxLifetime == 2
\* settings.peering.priority of the modelled operator; the peers' priorities
\* range over 0..MaxPrio, below, at and above it.
OwnPriority == 1
\* The settings and times the functions called on their own are given.
MaxSetting == 12
MaxStamp == 3

\* --------------------------------------------------------------- constants
\* keepalive: asyncio.sleep(max(1, int(settings.peering.lifetime - 10)))
SleepMargin == 10
SleepFloor == 1
\* touch(..., lifetime=0) in the finally block of keepalive
FinalLifetime == 0
\* detect_own_id: random.choices(..., k=3)
SuffixLen == 3

\* The identity of the modelled operator and of the other operators.
OwnId == "self"
Others == {"a", "b"}
Ids == {OwnId} \cup Others

VARIABLES
    now,        \* datetime.utcnow(), seconds
    status,     \* body['status'] of the peering object: identity -> opinfo
    dirty,      \* a change of the object is not yet delivered to the handler
    priority,   \* settings.peering.priority
    lifetime,   \* settings.peering.lifetime
    peerPrio,   \* the other operators' settings.peering.priority
    peerOn,     \* the other operators that still run their keepalive
    kpc,        \* keepalive: "touch" | "sleep" | "final" | "done"
    kwake,      \* keepalive: the time asyncio.sleep() ends
    kpatch,     \* keepalive: the patch of the touch() in flight
    kexc,       \* keepalive: the exception that left the while loop
    kresult,    \* keepalive: "running", or the exception the task ended with
    shield,     \* the shielded touch(lifetime=0): "none" | "inflight" | "applied" | "absent" | "failed"
    finals,     \* number of touch(lifetime=0) calls made
    klog,       \* keepalive's logger.exception() lines
    freeze,     \* freeze_mode: TRUE is on
    ppc,        \* process_peering_event: "idle" | "clean" (awaiting clean())
    call,       \* the last call of process_peering_event: the peers it parsed,
                \* how it ended, the toggle calls and log lines it made
    probe,      \* the last call made at startup or on its own (detect_presence,
                \* detect_own_id, Peer, the sleep of keepalive): arguments and outcome
    peerFreeze, \* freeze_mode of each of the other operators: TRUE is on
    peerCall    \* the last call of process_peering_event in each of the other
                \* operators: how it ended, and whether the peers it parsed
                \* as alive held every operator that runs

vars == <<now, status, dirty, priority, lifetime, peerPrio, peerOn,
          kpc, kwake, kpatch, kexc, kresult, shield, finals, klog,
          freeze, ppc, call, probe, peerFreeze, peerCall>>

peerHandlerVars == <<peerFreeze, peerCall>>
envVars == <<priority, lifetime, peerPrio, probe, peerHandlerVars>>
keepaliveVars == <<kpc, kwake, kpatch, kexc, kresult, shield, finals, klog>>
handlerVars == <<freeze, ppc, call>>

Max(a, b) == IF a >= b THEN a ELSE b

\* ------------------------------------------------------------------- Peer
\* A Peer whose deadline is not yet reached at the very second it falls on.
Peer_late(identity, opinfo, t) ==
    [identity |-> identity,
     priority |-> opinfo.priority,
     lastseen |-> opinfo.lastseen,
     lifetime |-> opinfo.lifetime,
     deadline |-> opinfo.lastseen + opinfo.lifetime,
     is_dead  |-> opinfo.lastseen + opinfo.lifetime < t]

\* Peer.__init__ on an entry of the status, at wall-clock time t.
Peer(identity, opinfo, t) ==
    [identity |-> identity,
     priority |-> opinfo.priority,
     lastseen |-> opinfo.lastseen,
     lifetime |-> opinfo.lifetime,
     deadline |-> opinfo.lastseen + opinfo.lifetime,
     is_dead  |-> opinfo.lastseen + opinfo.lifetime <= t]

\* Peer.__init__ without lastseen: it defaults to utcnow().
NewPeer(identity, prio, life, t) ==
    Peer(identity, [priority |-> prio, lastseen |-> t, lifetime |-> life], t)

\* An as_dict that gives the identifying and the calculated fields as well.
as_dict_whole(peer) == peer

\* Peer.as_dict: only the non-calculated and non-identifying fields.
as_dict(peer) ==
    [priority |-> peer.priority,
     lastseen |-> peer.lastseen,
     lifetime |-> peer.lifetime]

\* --------------------------------------------------------------- patches
\* A merge patch of the status: the keys set to None and the keys set to a dict.
NoPatch == [del |-> {}, put |-> <<>>]

\* patching.patch_obj applied by the store: a key set to None is removed.
ApplyPatch(st, p) ==
    [i \in (DOMAIN st \ p.del) \cup DOMAIN p.put |->
        IF i \in DOMAIN p.put THEN p.put[i] ELSE st[i]]

\* A touch() that writes the entry whatever its lifetime: the entry of a peer
\* computed as dead is stored, not removed.
touch_patch_always_puts(identity, prio, life, t) ==
    [del |-> {}, put |-> [i \in {identity} |-> as_dict(NewPeer(identity, prio, life, t))]]

\* touch: {'status': {identity: None if peer.is_dead else peer.as_dict()}}
touch_patch(identity, prio, life, t) ==
    LET peer == NewPeer(identity, prio, life, t)
    IN  IF peer.is_dead
        THEN [del |-> {identity}, put |-> <<>>]
        ELSE [del |-> {}, put |-> [i \in {identity} |-> as_dict(peer)]]

\* A clean() that sends one patch for one peer only.
clean_patch_single(peers) ==
    [del |-> IF peers = {} THEN {} ELSE {CHOOSE i \in peers : TRUE}, put |-> <<>>]

\* clean: {'status': {peer.identity: None for peer in peers}}
clean_patch(peers) == [del |-> peers, put |-> <<>>]

\* keepalive: max(1, int(settings.peering.lifetime - 10))
SleepInterval(life) == Max(SleepFloor, life - SleepMargin)

\* ----------------------------------------------------------------- Toggle
\* primitives.Toggle: is_on, is_off, turn_on, turn_off.
is_on(flag) == flag
is_off(flag) == ~flag
turn_on(flag) == TRUE
turn_off(flag) == FALSE

\* ------------------------------------------------- process_peering_event
\* The identities of the parsed peers, partitioned as the handler does.
dead_peers(st, t) == {i \in DOMAIN st : Peer(i, st[i], t).is_dead}
live_peers(st, t, identity) ==
    {i \in DOMAIN st : ~Peer(i, st[i], t).is_dead /\ i # identity}
\* A handler that gives way to the live peers of a lower priority.
prio_peers_lower(st, t, identity, prio) ==
    {i \in live_peers(st, t, identity) : st[i].priority < prio}

prio_peers(st, t, identity, prio) ==
    {i \in live_peers(st, t, identity) : st[i].priority > prio}
same_peers(st, t, identity, prio) ==
    {i \in live_peers(st, t, identity) : st[i].priority = prio}

Partition(st, t, identity, prio) ==
    [all  |-> DOMAIN st,
     dead |-> dead_peers(st, t),
     prio |-> prio_peers(st, t, identity, prio),
     same |-> same_peers(st, t, identity, prio)]

\* A line of the log: logger.info / logger.warning and the peers it names.
Line(level, text, peers) == [level |-> level, text |-> text, peers |-> peers]
FreezingInFavour(pp) == Line("info", "Freezing operations in favour of", pp.prio)
PossiblyConflicting(pp) ==
    Line("warning", "Possibly conflicting operators with the same priority", pp.same)
FreezingAll(pp) == Line("warning", "Freezing all operators, including self", pp.all)
Resuming == Line("info", "Resuming operations after the freeze", {})

\* A decision that warns of the peers of the same priority and goes on working.
Decide_warning_only(flag, pp) ==
    IF pp.prio # {} THEN
        IF is_off(flag)
        THEN [branch |-> "prio", flag |-> turn_on(flag), ons |-> 1, offs |-> 0,
              log |-> <<FreezingInFavour(pp)>>]
        ELSE [branch |-> "prio", flag |-> flag, ons |-> 0, offs |-> 0, log |-> <<>>]
    ELSE IF pp.same # {} THEN
        [branch |-> "same", flag |-> flag, ons |-> 0, offs |-> 0,
         log |-> <<PossiblyConflicting(pp)>>]
    ELSE
        IF is_on(flag)
        THEN [branch |-> "else", flag |-> turn_off(flag), ons |-> 0, offs |-> 1,
              log |-> <<Resuming>>]
        ELSE [branch |-> "else", flag |-> flag, ons |-> 0, offs |-> 0, log |-> <<>>]

\* Lines 130-142 on the parsed peers pp: the branch taken, the flag after the
\* decision, the turn_on/turn_off calls made and the log lines written.
Decide(flag, pp) ==
    IF pp.prio # {} THEN
        IF is_off(flag)
        THEN [branch |-> "prio", flag |-> turn_on(flag), ons |-> 1, offs |-> 0,
              log |-> <<FreezingInFavour(pp)>>]
        ELSE [branch |-> "prio", flag |-> flag, ons |-> 0, offs |-> 0, log |-> <<>>]
    ELSE IF pp.same # {} THEN
        IF is_off(flag)
        THEN [branch |-> "same", flag |-> turn_on(flag), ons |-> 1, offs |-> 0,
              log |-> <<PossiblyConflicting(pp), FreezingAll(pp)>>]
        ELSE [branch |-> "same", flag |-> flag, ons |-> 0, offs |-> 0,
              log |-> <<PossiblyConflicting(pp)>>]
    ELSE
        IF is_on(flag)
        THEN [branch |-> "else", flag |-> turn_off(flag), ons |-> 0, offs |-> 1,
              log |-> <<Resuming>>]
        ELSE [branch |-> "else", flag |-> flag, ons |-> 0, offs |-> 0, log |-> <<>>]

NoParts == [all |-> {}, dead |-> {}, prio |-> {}, same |-> {}]
NoCall == [out |-> "none", peers |-> NoParts, ons |-> 0, offs |-> 0,
           log |-> <<>>, cleans |-> 0, repeat |-> "no"]

NoProbe == [fn |-> "none"]
NoPeerCall == [out |-> "none", alive |-> FALSE]

\* A patch changes the stored object when it writes an entry (its lastseen is
\* the time of the call, unlike any time written before) or removes one that
\* is there; a change is a change notification for the handler.
Changes(p) == p.put # <<>> \/ p.del \cap DOMAIN status # {}

\* A store that patches an object that is gone.
AppliedThoughAbsent(rsp) == TRUE

\* The response of patch_obj: the patched body ("ok") when the store applied
\* the patch, None ("absent", logged by touch as "not found") when the object
\* is gone and nothing was patched.
Applied(rsp) == rsp = "ok"

\* patch_obj with patch p: applied by the store, or not (the object is absent,
\* or the request failed before the store took it).
Store(p, applied) ==
    /\ status' = (IF applied THEN ApplyPatch(status, p) ELSE status)
    /\ dirty' = (dirty \/ (applied /\ Changes(p)))

TypeOK ==
    /\ now \in 0..MaxTime
    /\ DOMAIN status \subseteq Ids
    /\ dirty \in BOOLEAN
    /\ priority \in 0..MaxPrio
    /\ lifetime \in 1..MaxLifetime
    /\ peerPrio \in [Others -> 0..MaxPrio]
    /\ peerOn \in [Others -> BOOLEAN]
    /\ kpc \in {"touch", "sleep", "final", "done"}
    /\ kexc \in {"none", "CancelledError", "StoreError"}
    /\ kresult \in {"running", "CancelledError", "StoreError", "FinalWriteError"}
    /\ shield \in {"none", "inflight", "applied", "absent", "failed"}
    /\ finals \in 0..1
    /\ freeze \in BOOLEAN
    /\ ppc \in {"idle", "clean"}
    /\ peerFreeze \in [Others -> BOOLEAN]
    /\ DOMAIN peerCall = Others

Init ==
    /\ now = 0
    /\ status = <<>>
    /\ dirty = TRUE
    /\ priority = OwnPriority
    /\ lifetime \in 1..MaxLifetime
    /\ peerPrio \in [Others -> 0..MaxPrio]
    /\ peerOn = [p \in Others |-> TRUE]
    /\ kpc = "touch"
    /\ kwake = 0
    /\ kpatch = touch_patch(OwnId, priority, lifetime, 0)
    /\ kexc = "none"
    /\ kresult = "running"
    /\ shield = "none"
    /\ finals = 0
    /\ klog = <<>>
    /\ freeze = FALSE
    /\ ppc = "idle"
    /\ call = NoCall
    /\ probe = NoProbe
    /\ peerFreeze = [p \in Others |-> FALSE]
    /\ peerCall = [p \in Others |-> NoPeerCall]

\* -------------------------------------------------------------- the clock
\* A stored time one second further in the past.
Older(t) == Max(0, t - 1)
OlderStatus(st) == [i \in DOMAIN st |-> [st[i] EXCEPT !.lastseen = Older(@)]]
OlderPatch(p) == [p EXCEPT !.put = OlderStatus(@)]

\* One second passes.
Tick ==
    /\ IF now < MaxTime
       THEN /\ now' = now + 1
            /\ UNCHANGED <<status, kwake, kpatch>>
       ELSE /\ now' = now
            /\ status' = OlderStatus(status)
            /\ kwake' = Older(kwake)
            /\ kpatch' = OlderPatch(kpatch)
    /\ UNCHANGED <<dirty, envVars, peerOn, kpc, kexc, kresult, shield, finals, klog,
                   handlerVars>>

\* ------------------------------------------------------------- keepalive
\* The finally block of keepalive is entered with exception exc pending:
\* touch(lifetime=0) is called under asyncio.shield and awaited.
EnterFinally(exc) ==
    /\ kexc' = exc
    /\ kpc' = "final"
    /\ shield' = "inflight"
    /\ finals' = finals + 1
    /\ kpatch' = touch_patch(OwnId, priority, FinalLifetime, now)

\* A finally block that lets the error of the final touch() through.
FinalFailureRaised(exc) == "FinalWriteError"

\* The exception keepalive ends with once its finally block is left after the
\* final touch() raised: `except Exception` logs it, the pending one goes on.
AfterFinalFailure(exc) == exc

\* The exception keepalive ends with once its finally block is left after the
\* await of the shield was cancelled: `except asyncio.CancelledError: pass`.
AfterFinalCancel(exc) == exc

\* await touch(...) in the loop returns; then asyncio.sleep(...) is awaited.
keepalive_touch_returns(rsp) ==
    /\ kpc = "touch"
    /\ Store(kpatch, Applied(rsp))
    /\ kpc' = "sleep"
    /\ kwake' = now + SleepInterval(lifetime)
    /\ kpatch' = NoPatch
    /\ UNCHANGED <<now, envVars, peerOn, kexc, kresult, shield, finals, klog, handlerVars>>

\* await touch(...) in the loop raises the store's error: the loop is left.
keepalive_touch_raises(applied) ==
    /\ kpc = "touch"
    /\ Store(kpatch, applied)
    /\ EnterFinally("StoreError")
    /\ UNCHANGED <<now, envVars, peerOn, kwake, kresult, klog, handlerVars>>

\* asyncio.sleep(...) is over: the loop calls touch() again.
keepalive_wakes ==
    /\ kpc = "sleep"
    /\ now >= kwake
    /\ kpc' = "touch"
    /\ kpatch' = touch_patch(OwnId, priority, lifetime, now)
    /\ UNCHANGED <<now, status, dirty, envVars, peerOn, kwake, kexc, kresult,
                   shield, finals, klog, handlerVars>>

\* The task is cancelled while it awaits asyncio.sleep() or a regular touch().
keepalive_cancelled(applied) ==
    /\ kpc \in {"touch", "sleep"}
    /\ Store(kpatch, kpc = "touch" /\ applied)
    /\ EnterFinally("CancelledError")
    /\ UNCHANGED <<now, envVars, peerOn, kwake, kresult, klog, handlerVars>>

\* The shielded touch(lifetime=0) returns while keepalive awaits it.
keepalive_final_returns(rsp) ==
    /\ kpc = "final" /\ shield = "inflight"
    /\ Store(kpatch, Applied(rsp))
    /\ shield' = IF rsp = "ok" THEN "applied" ELSE "absent"
    /\ kpc' = "done"
    /\ kresult' = kexc
    /\ kpatch' = NoPatch
    /\ UNCHANGED <<now, envVars, peerOn, kwake, kexc, finals, klog, handlerVars>>

\* The shielded touch(lifetime=0) raises while keepalive awaits it.
keepalive_final_raises ==
    /\ kpc = "final" /\ shield = "inflight"
    /\ shield' = "failed"
    /\ klog' = Append(klog, "exception: Couldn't remove self from the peering. Ignoring.")
    /\ kpc' = "done"
    /\ kresult' = AfterFinalFailure(kexc)
    /\ kpatch' = NoPatch
    /\ UNCHANGED <<now, status, dirty, envVars, peerOn, kwake, kexc, finals, handlerVars>>

\* The task is cancelled while it awaits the shield: the await raises
\* CancelledError, the shielded touch() goes on as a task of its own.
keepalive_final_cancelled ==
    /\ kpc = "final" /\ shield = "inflight"
    /\ kpc' = "done"
    /\ kresult' = AfterFinalCancel(kexc)
    /\ UNCHANGED <<now, status, dirty, envVars, peerOn, kwake, kpatch, kexc,
                   shield, finals, klog, handlerVars>>

\* The shielded touch(lifetime=0) ends after keepalive has ended.
shielded_touch_ends(rsp) ==
    /\ kpc = "done" /\ shield = "inflight"
    /\ Store(kpatch, Applied(rsp))
    /\ shield' = CASE rsp = "ok" -> "applied"
                   [] rsp = "absent" -> "absent"
                   [] OTHER -> "failed"
    /\ kpatch' = NoPatch
    /\ UNCHANGED <<now, envVars, peerOn, kpc, kwake, kexc, kresult, finals, klog, handlerVars>>

\* ------------------------------------------------------ the other operators
\* Another operator's touch(): it writes its own entry, lastseen = utcnow().
peer_touch(p) ==
    /\ peerOn[p]
    /\ Store(touch_patch(p, peerPrio[p], lifetime, now), TRUE)
    /\ UNCHANGED <<now, envVars, peerOn, keepaliveVars, handlerVars>>

\* Another operator exits: its keepalive is cancelled, touch(lifetime=0).
peer_exits(p) ==
    /\ peerOn[p]
    /\ peerOn' = [peerOn EXCEPT ![p] = FALSE]
    /\ Store(touch_patch(p, peerPrio[p], FinalLifetime, now), TRUE)
    /\ UNCHANGED <<now, envVars, keepaliveVars, handlerVars>>

\* Another operator is terminated hard: its entry stays until it times out.
peer_dies(p) ==
    /\ peerOn[p]
    /\ peerOn' = [peerOn EXCEPT ![p] = FALSE]
    /\ UNCHANGED <<now, status, dirty, envVars, keepaliveVars, handlerVars>>

\* A touch() under the operator's own identity, as seen by the handler: of this
\* run, or of an earlier run of the same identity with another priority.
own_touch(prio) ==
    /\ Store(touch_patch(OwnId, prio, lifetime, now), TRUE)
    /\ UNCHANGED <<now, envVars, peerOn, keepaliveVars, handlerVars>>

\* ------------------------------------------------- process_peering_event
\* The operators that run, and the peers pp a call parsed hold them all alive.
Members == {OwnId} \cup {p \in Others : peerOn[p]}
AllLiveIn(pp) == Members \subseteq (pp.all \ pp.dead)

\* process_peering_event(autoclean=False) in another operator p, under its
\* identity and its priority, on a notification for the peering object as it
\* is now: the status is parsed and the decision is taken on the parsed peers
\* (lines 119-125 and 130-142; line 127 sends nothing without autoclean).
peer_process_event(p) ==
    /\ peerOn[p]
    /\ LET pp == Partition(status, now, p, peerPrio[p])
       IN  /\ peerFreeze' = [peerFreeze EXCEPT ![p] = Decide(peerFreeze[p], pp).flag]
           /\ peerCall' = [peerCall EXCEPT
                               ![p] = [out |-> "returned", alive |-> AllLiveIn(pp)]]
    /\ UNCHANGED <<now, status, dirty, priority, lifetime, peerPrio, probe, peerOn,
                   keepaliveVars, handlerVars>>

\* A handler for which the cleanup stands in for the decision: a call that has
\* removed the dead peers returns with the toggle as it found it.
Decision_none_after_clean(pp, cleans, rep) ==
    LET d == Decide(freeze, pp)
    IN  IF cleans > 0
        THEN /\ freeze' = freeze
             /\ call' = [out |-> "returned", peers |-> pp, ons |-> 0, offs |-> 0,
                         log |-> <<>>, cleans |-> cleans, repeat |-> rep]
        ELSE /\ freeze' = d.flag
             /\ call' = [out |-> "returned", peers |-> pp, ons |-> d.ons, offs |-> d.offs,
                         log |-> d.log, cleans |-> cleans, repeat |-> rep]

\* Lines 130-142 run on the parsed peers pp: the toggle is driven and the call
\* returns.
Decision(pp, cleans, rep) ==
    LET d == Decide(freeze, pp)
    IN  /\ freeze' = d.flag
        /\ call' = [out |-> "returned", peers |-> pp, ons |-> d.ons, offs |-> d.offs,
                    log |-> d.log, cleans |-> cleans, repeat |-> rep]

\* The peering object the operator is configured for (namespace, or "None"
\* for the cluster-wide peering, and settings.peering.name), and the metadata
\* of the objects notifications come for.
Namespace == "ns"
PeeringName == "default"
Metas == [namespace : {"None", "ns", "other"}, name : {"default", "other"}]

\* if meta.get('namespace') != namespace or meta.get('name') != settings.peering.name
NotOurs(meta, namespace, name) == meta.namespace # namespace \/ meta.name # name

\* A handler that leaves a line in the log for what it ignores.
IgnoredAloud == [NoCall EXCEPT !.out = "ignored", !.log = <<Line("info", "Ignored", {})>>]

\* The call that returns at line 117: no toggle call, no patch, no log line.
Ignored == [NoCall EXCEPT !.out = "ignored"]

\* A notification for a peering object that is not ours: lines 116-117.
process_foreign_event ==
    /\ ppc = "idle"
    /\ {meta \in Metas : NotOurs(meta, Namespace, PeeringName)} # {}
    /\ call' = Ignored
    /\ UNCHANGED <<now, status, dirty, envVars, peerOn, keepaliveVars, freeze, ppc>>

\* A notification for our peering object: the status is parsed (lines 119-125);
\* with dead peers and autoclean the call awaits clean(), else it decides.
\* The call repeats the one before it when it parses the same peers into the
\* same lists; `repeat` keeps how the one before it ended.
process_peering_event(autoclean) ==
    /\ ppc = "idle"
    /\ {meta \in Metas : ~NotOurs(meta, Namespace, PeeringName)} # {}
    /\ dirty
    /\ dirty' = FALSE
    /\ LET pp == Partition(status, now, OwnId, priority)
           rep == IF call.out \in {"returned", "raised"} /\ call.peers = pp
                  THEN call.out ELSE "no"
       IN  IF autoclean /\ pp.dead # {}
           THEN /\ ppc' = "clean"
                /\ call' = [NoCall EXCEPT !.out = "cleaning", !.peers = pp,
                                          !.cleans = 1, !.repeat = rep]
                /\ UNCHANGED freeze
           ELSE /\ ppc' = "idle"
                /\ Decision(pp, 0, rep)
    /\ UNCHANGED <<now, status, envVars, peerOn, keepaliveVars>>

\* A handler whose peers tell whether they are dead each time they are asked:
\* after the await the lists are those of the time the call resumes at.
clean_returns_reparsing(rsp) ==
    /\ ppc = "clean"
    /\ Store(clean_patch(call.peers.dead), Applied(rsp))
    /\ ppc' = "idle"
    /\ Decision(Partition(status, now, OwnId, priority), call.cleans, call.repeat)
    /\ UNCHANGED <<now, envVars, peerOn, keepaliveVars>>

\* await clean(...) returns: the patch is applied unless the object is gone,
\* and the call goes on to its decision with the peers it parsed.
clean_returns(rsp) ==
    /\ ppc = "clean"
    /\ Store(clean_patch(call.peers.dead), Applied(rsp))
    /\ ppc' = "idle"
    /\ Decision(call.peers, call.cleans, call.repeat)
    /\ UNCHANGED <<now, envVars, peerOn, keepaliveVars>>

\* await clean(...) raises the store's error: nothing catches it in
\* process_peering_event, which ends with it.
clean_raises ==
    /\ ppc = "clean"
    /\ ppc' = "idle"
    /\ call' = [call EXCEPT !.out = "raised"]
    /\ UNCHANGED <<now, status, dirty, envVars, peerOn, keepaliveVars, freeze>>

\* ------------------------------------------------------------ the system
Rsp == {"ok", "absent"}

Keepalive ==
    \/ \E rsp \in Rsp : keepalive_touch_returns(rsp)
    \/ \E applied \in BOOLEAN : keepalive_touch_raises(applied)
    \/ keepalive_wakes
    \/ \E applied \in BOOLEAN : keepalive_cancelled(applied)
    \/ \E rsp \in Rsp : keepalive_final_returns(rsp)
    \/ keepalive_final_raises
    \/ keepalive_final_cancelled
    \/ \E rsp \in Rsp \cup {"error"} : shielded_touch_ends(rsp)

Handler ==
    \/ process_foreign_event
    \/ \E autoclean \in BOOLEAN : process_peering_event(autoclean)
    \/ \E rsp \in Rsp : clean_returns(rsp)
    \/ clean_raises

PeersAct ==
    \/ \E p \in Others : peer_touch(p)
    \/ \E p \in Others : peer_exits(p)
    \/ \E p \in Others : peer_dies(p)

\* The handler of one operator among its peers.
HandlerNext ==
    \/ Tick
    \/ Handler
    \/ \E p \in Others : peer_touch(p)
    \/ \E p \in Others : peer_exits(p)
    \/ \E prio \in {priority, MaxPrio} : own_touch(prio)
\* The other operators are alike: "a" is taken as the one of no lower priority.
HandlerInit == Init /\ peerPrio["a"] >= peerPrio["b"]
HandlerSpec == HandlerInit /\ [][HandlerNext]_vars

\* The keepalive task of one operator among its peers, whose priorities play
\* no part in it.
KeepaliveInit == Init /\ peerPrio = [p \in Others |-> priority]
KeepaliveNext == Tick \/ Keepalive \/ PeersAct
KeepaliveSpec == KeepaliveInit /\ [][KeepaliveNext]_vars

\* The keepalive task where the store ends every final write it is given:
\* the shielded touch(lifetime=0) returns or raises in the end.
FinalWriteEnds ==
    \/ \E rsp \in Rsp : keepalive_final_returns(rsp)
    \/ keepalive_final_raises
KeepaliveFairSpec ==
    KeepaliveInit /\ [][KeepaliveNext]_vars /\ WF_vars(FinalWriteEnds)

\* One operator whole, its keepalive loop running and its handler called for
\* every change of the peering object, beside a peer of equal or of higher
\* priority that comes and goes. The store serves the operator's regular
\* writes; a cleanup patch may fail.
LoopStep == keepalive_touch_returns("ok") \/ keepalive_wakes
CallStep == \E autoclean \in BOOLEAN : process_peering_event(autoclean)
CleanStep == (\E rsp \in Rsp : clean_returns(rsp)) \/ clean_raises
LiveNext ==
    \/ Tick
    \/ keepalive_touch_returns("ok")
    \/ keepalive_wakes
    \/ \E autoclean \in BOOLEAN : process_peering_event(autoclean)
    \/ \E rsp \in Rsp : clean_returns(rsp)
    \/ clean_raises
    \/ PeersAct
LiveInit ==
    /\ now = 0
    /\ status = <<>>
    /\ dirty = TRUE
    /\ priority = OwnPriority
    /\ lifetime \in 1..MaxLifetime
    /\ peerPrio \in [Others -> {priority, MaxPrio}]
    /\ peerPrio["b"] = priority
    /\ peerOn = [p \in Others |-> p = "a"]
    /\ kpc = "touch"
    /\ kwake = 0
    /\ kpatch = touch_patch(OwnId, priority, lifetime, 0)
    /\ kexc = "none"
    /\ kresult = "running"
    /\ shield = "none"
    /\ finals = 0
    /\ klog = <<>>
    /\ freeze = FALSE
    /\ ppc = "idle"
    /\ call = NoCall
    /\ probe = NoProbe
    /\ peerFreeze = [p \in Others |-> FALSE]
    /\ peerCall = [p \in Others |-> NoPeerCall]
LiveSpec ==
    /\ LiveInit
    /\ [][LiveNext]_vars
    /\ WF_vars(Tick)
    /\ WF_vars(LoopStep)
    /\ WF_vars(CallStep)
    /\ WF_vars(CleanStep)

\* The same where the store does not fail the cleanup patch every time for ever.
LiveCleaningSpec ==
    LiveSpec /\ SF_vars(\E rsp \in Rsp : clean_returns(rsp))

\* Two or three operators on one peering object, of priorities that differ
\* from each other: the modelled one and those of the others that run. Each
\* writes its entry and runs its handler, the others with autoclean disabled;
\* the store serves the keepalive writes, and a cleanup patch may fail.
PriorityOf(i) == IF i = OwnId THEN priority ELSE peerPrio[i]
FreezeOf(i) == IF i = OwnId THEN freeze ELSE peerFreeze[i]
SystemNext ==
    \/ Tick
    \/ own_touch(priority)
    \/ \E p \in Others : peer_touch(p)
    \/ \E autoclean \in BOOLEAN : process_peering_event(autoclean)
    \/ \E rsp \in Rsp : clean_returns(rsp)
    \/ clean_raises
    \/ \E p \in Others : peer_process_event(p)
SystemInit ==
    /\ now = 0
    /\ status = <<>>
    /\ dirty = TRUE
    /\ priority = OwnPriority
    /\ lifetime = MaxLifetime
    /\ peerPrio \in [Others -> 0..MaxPrio]
    /\ \A i, j \in Ids : i # j => PriorityOf(i) # PriorityOf(j)
    /\ peerOn \in [Others -> BOOLEAN]
    /\ {p \in Others : peerOn[p]} # {}
    /\ kpc = "touch"
    /\ kwake = 0
    /\ kpatch = touch_patch(OwnId, priority, lifetime, 0)
    /\ kexc = "none"
    /\ kresult = "running"
    /\ shield = "none"
    /\ finals = 0
    /\ klog = <<>>
    /\ freeze = FALSE
    /\ ppc = "idle"
    /\ call = NoCall
    /\ probe = NoProbe
    /\ peerFreeze = [p \in Others |-> FALSE]
    /\ peerCall = [p \in Others |-> NoPeerCall]
SystemSpec == SystemInit /\ [][SystemNext]_vars

\* ------------------------------------------- the functions on their own
\* keepalive's asyncio.sleep(max(1, int(lifetime - 10))) under a configured
\* settings.peering.lifetime.
sleep_of(life) ==
    /\ probe = NoProbe
    /\ probe' = [fn |-> "sleep", lifetime |-> life, interval |-> SleepInterval(life)]
    /\ UNCHANGED <<now, status, dirty, priority, lifetime, peerPrio, peerOn,
                   keepaliveVars, handlerVars, peerHandlerVars>>

\* Peer(identity=..., priority=..., lastseen=..., lifetime=...) built at time t.
new_Peer(prio, seen, life, t) ==
    /\ probe = NoProbe
    /\ probe' = [fn |-> "Peer", lastseen |-> seen, lifetime |-> life, now |-> t,
                 peer |-> Peer(OwnId, [priority |-> prio, lastseen |-> seen,
                                       lifetime |-> life], t)]
    /\ UNCHANGED <<now, status, dirty, priority, lifetime, peerPrio, peerOn,
                   keepaliveVars, handlerVars, peerHandlerVars>>

\* Peer(identity=..., priority=..., lifetime=...) built at time t: lastseen
\* defaults to utcnow().
new_Peer_now(prio, life, t) ==
    /\ probe = NoProbe
    /\ probe' = [fn |-> "Peer", lastseen |-> t, lifetime |-> life, now |-> t,
                 peer |-> NewPeer(OwnId, prio, life, t)]
    /\ UNCHANGED <<now, status, dirty, priority, lifetime, peerPrio, peerOn,
                   keepaliveVars, handlerVars, peerHandlerVars>>

\* Strings are sequences of characters. The characters detect_own_id draws
\* its suffix from, 'abcdefhijklmnopqrstuvwxyz0123456789':
SuffixChars ==
    <<"a", "b", "c", "d", "e", "f", "h", "i", "j", "k", "l", "m", "n", "o", "p", "q", "r",
      "s", "t", "u", "v", "w", "x", "y", "z", "0", "1", "2", "3", "4", "5", "6", "7", "8", "9">>
DigitChars == <<"0", "1", "2", "3", "4", "5", "6", "7", "8", "9">>

\* The decimal digits of n, zero-padded to the given width (%Y, %m, %d, ...).
RECURSIVE Padded(_, _)
Padded(n, width) ==
    IF width = 0 THEN <<>> ELSE Padded(n \div 10, width - 1) \o <<DigitChars[(n % 10) + 1]>>

\* datetime.strftime("%Y%m%d%H%M%S")
strftime(dt) ==
    Padded(dt.Y, 4) \o Padded(dt.m, 2) \o Padded(dt.d, 2)
        \o Padded(dt.H, 2) \o Padded(dt.M, 2) \o Padded(dt.S, 2)

\* ''.join(random.choices(chars, k=...)) for the drawn positions.
joined(chars, drawn) == [k \in 1..Len(drawn) |-> chars[drawn[k]]]

\* A detect_own_id that takes POD_ID only when the identity is not manual.
own_id_pod_unless_manual(pod, manual, user, host, dt, drawn) ==
    IF pod.set /\ ~manual THEN pod.value
    ELSE IF manual THEN user \o <<"@">> \o host
    ELSE user \o <<"@">> \o host \o <<"/">> \o strftime(dt) \o <<"/">>
            \o joined(SuffixChars, drawn)

\* detect_own_id, lines 260-268: pod is os.environ.get('POD_ID', None), user
\* is getpass.getuser(), host the descriptive hostname, dt utcnow(), drawn
\* the positions random.choices picks.
own_id(pod, manual, user, host, dt, drawn) ==
    IF pod.set THEN pod.value
    ELSE IF manual THEN user \o <<"@">> \o host
    ELSE user \o <<"@">> \o host \o <<"/">> \o strftime(dt) \o <<"/">>
            \o joined(SuffixChars, drawn)

\* The environments and moments detect_own_id is called in.
Pods == {[set |-> FALSE, value |-> <<>>], [set |-> TRUE, value |-> <<>>],
         [set |-> TRUE, value |-> <<"p", "o", "d", "-", "1">>]}
Users == {<<"r", "o", "o", "t">>}
Hosts == {<<"h", "1">>}
Moments == {[Y |-> 2020, m |-> 1, d |-> 2, H |-> 3, M |-> 4, S |-> 5],
            [Y |-> 2019, m |-> 12, d |-> 31, H |-> 23, M |-> 59, S |-> 59]}
Draws == [1..SuffixLen -> 1..Len(SuffixChars)]

\* A call of detect_own_id(manual=...).
detect_own_id(pod, manual, user, host, dt, drawn) ==
    /\ probe = NoProbe
    /\ probe' = [fn |-> "detect_own_id", pod |-> pod, manual |-> manual,
                 user |-> user, host |-> host, dt |-> dt,
                 id |-> own_id(pod, manual, user, host, dt, drawn)]
    /\ UNCHANGED <<now, status, dirty, priority, lifetime, peerPrio, peerOn,
                   keepaliveVars, handlerVars, peerHandlerVars>>

\* A detect_presence that looks at `mandatory` before `standalone`.
presence_mandatory_first(standalone, mandatory, obj) ==
    IF mandatory /\ obj = "absent" /\ ~standalone
    THEN [reads |-> 1, out |-> "raise", log |-> <<>>]
    ELSE IF mandatory /\ standalone
    THEN [reads |-> 1, out |-> IF obj = "present" THEN "True" ELSE "raise", log |-> <<>>]
    ELSE IF standalone
    THEN [reads |-> 0, out |-> "None", log |-> <<>>]
    ELSE IF obj = "error"
    THEN [reads |-> 1, out |-> "error", log |-> <<>>]
    ELSE IF obj = "absent"
    THEN [reads |-> 1, out |-> "False",
          log |-> <<Line("warning", "Default peering object is not found", {})>>]
    ELSE [reads |-> 1, out |-> "True", log |-> <<>>]

\* A detect_presence that reads the object before it looks at `standalone`,
\* and once more when the object is not there.
presence_reading_first(standalone, mandatory, obj) ==
    IF obj = "error"
    THEN [reads |-> 1, out |-> "error", log |-> <<>>]
    ELSE IF standalone
    THEN [reads |-> 1, out |-> "None", log |-> <<>>]
    ELSE IF mandatory /\ obj = "absent"
    THEN [reads |-> 2, out |-> "raise", log |-> <<>>]
    ELSE IF obj = "absent"
    THEN [reads |-> 2, out |-> "False",
          log |-> <<Line("warning", "Default peering object is not found", {})>>]
    ELSE [reads |-> 1, out |-> "True", log |-> <<>>]

\* detect_presence, lines 225-237: the reads of the peering object it makes
\* (fetching.read_obj with default=None: the object, None when it is absent,
\* or the store's error, which nothing catches), what it returns or raises,
\* and what it logs.
presence(standalone, mandatory, obj) ==
    IF standalone
    THEN [reads |-> 0, out |-> "None", log |-> <<>>]
    ELSE IF obj = "error"
    THEN [reads |-> 1, out |-> "error", log |-> <<>>]
    ELSE IF mandatory /\ obj = "absent"
    THEN [reads |-> 1, out |-> "raise", log |-> <<>>]
    ELSE IF obj = "absent"
    THEN [reads |-> 1, out |-> "False",
          log |-> <<Line("warning", "Default peering object is not found", {})>>]
    ELSE [reads |-> 1, out |-> "True", log |-> <<>>]

\* A call of detect_presence under the given settings, the store holding the
\* peering object, not holding it, or failing the read.
detect_presence(standalone, mandatory, obj) ==
    /\ probe = NoProbe
    /\ probe' = [fn |-> "detect_presence", standalone |-> standalone,
                 mandatory |-> mandatory, obj |-> obj,
                 did |-> presence(standalone, mandatory, obj)]
    /\ UNCHANGED <<now, status, dirty, priority, lifetime, peerPrio, peerOn,
                   keepaliveVars, handlerVars, peerHandlerVars>>

ProbeNext ==
    \/ probe = NoProbe /\ \E pod \in Pods, manual \in BOOLEAN, user \in Users, host \in Hosts,
          dt \in Moments, drawn \in Draws :
            detect_own_id(pod, manual, user, host, dt, drawn)
    \/ probe = NoProbe /\ \E standalone \in BOOLEAN, mandatory \in BOOLEAN, obj \in {"present", "absent", "error"} :
            detect_presence(standalone, mandatory, obj)
    \/ probe = NoProbe /\ \E life \in 0..MaxSetting : sleep_of(life)
    \/ probe = NoProbe /\ \E prio \in 0..MaxPrio, seen \in 0..MaxStamp, life \in 0..MaxStamp, t \in 0..MaxStamp :
            new_Peer(prio, seen, life, t)
    \/ probe = NoProbe /\ \E prio \in 0..MaxPrio, life \in 0..MaxStamp, t \in 0..MaxStamp :
            new_Peer_now(prio, life, t)
\* Each function is called once, in an operator that is starting.
ProbeInit == Init /\ lifetime = MaxLifetime /\ peerPrio = [p \in Others |-> priority]
ProbeSpec == ProbeInit /\ [][ProbeNext]_vars

\* ================================================ process_peering_event
\* What the claims speak of, read off the stored peering object and the clock.
Alive(i) == status[i].lastseen + status[i].lifetime > now
Rivals == {i \in DOMAIN status \ {OwnId} : Alive(i)}
Higher == {i \in Rivals : status[i].priority > priority}
Equal == {i \in Rivals : status[i].priority = priority}
Expired == {i \in DOMAIN status : ~Alive(i)}

\* The steps of one call: it parses the object, it may await clean(), it ends.
CallParses == \E autoclean \in BOOLEAN : process_peering_event(autoclean)
CallEnds ==
    \/ CallParses /\ ppc' = "idle"
    \/ \E rsp \in Rsp : clean_returns(rsp)
    \/ clean_raises

\* The rivals in the object the ending call was given.
SeenHigher == IF ppc = "clean" THEN call.peers.prio ELSE Higher
SeenEqual == IF ppc = "clean" THEN call.peers.same ELSE Equal

\* A call that awaits clean() has parsed the object it was given.
ParsedAsGiven ==
    CallParses =>
        /\ call'.peers.all = DOMAIN status
        /\ call'.peers.dead = Expired
        /\ call'.peers.prio = Higher
        /\ call'.peers.same = Equal

ConflictWarning(peers) == [level |-> "warning",
                           text |-> "Possibly conflicting operators with the same priority",
                           peers |-> peers]
Logged(c, line) == \E k \in 1..Len(c.log) : c.log[k] = line
WarnsOfConflict(c) == \E k \in 1..Len(c.log) : c.log[k].text = ConflictWarning({}).text

\* C1: a call given a live rival of strictly higher priority leaves the freeze
\* flag on, has called turn_on exactly once if the flag was off and not at all
\* if it was on, and has logged no same-priority conflict warning.
C1_HigherPriorityFreezes ==
    [][/\ ParsedAsGiven
       /\ CallEnds /\ SeenHigher # {} =>
            /\ freeze'
            /\ call'.ons = (IF freeze THEN 0 ELSE 1)
            /\ call'.offs = 0
            /\ ~WarnsOfConflict(call')]_vars

\* C1, of the calls that return: the same statement.
C1_HigherPriorityFreezesOnReturn ==
    [][/\ ParsedAsGiven
       /\ CallEnds /\ call'.out = "returned" /\ SeenHigher # {} =>
            /\ freeze'
            /\ call'.ons = (IF freeze THEN 0 ELSE 1)
            /\ call'.offs = 0
            /\ ~WarnsOfConflict(call')]_vars

\* C2: a call given live rivals of equal priority and none of higher priority
\* leaves the freeze flag on and has logged the conflict warning that names the
\* equal-priority rivals.
C2_EqualPriorityFreezes ==
    [][/\ ParsedAsGiven
       /\ CallEnds /\ SeenHigher = {} /\ SeenEqual # {} =>
            /\ freeze'
            /\ Logged(call', ConflictWarning(SeenEqual))]_vars

\* C2, of the calls that return: the same statement.
C2_EqualPriorityFreezesOnReturn ==
    [][/\ ParsedAsGiven
       /\ CallEnds /\ call'.out = "returned" /\ SeenHigher = {} /\ SeenEqual # {} =>
            /\ freeze'
            /\ call'.ons = (IF freeze THEN 0 ELSE 1)
            /\ call'.offs = 0
            /\ Logged(call', ConflictWarning(SeenEqual))]_vars

\* C3: a call given no live rival of equal or higher priority leaves the freeze
\* flag off; if the flag was on it has called turn_off once and logged the one
\* resume line, if the flag was off it has toggled and logged nothing. The
\* operator's own entry is no rival, whatever its priority.
C3_NoRivalResumes ==
    [][/\ ParsedAsGiven
       /\ CallEnds /\ SeenHigher = {} /\ SeenEqual = {} =>
            /\ ~freeze'
            /\ call'.ons = 0
            /\ call'.offs = (IF freeze THEN 1 ELSE 0)
            /\ call'.log = (IF freeze THEN <<Resuming>> ELSE <<>>)]_vars

\* C3, of the calls that return: the same statement.
C3_NoRivalResumesOnReturn ==
    [][/\ ParsedAsGiven
       /\ CallEnds /\ call'.out = "returned" /\ SeenHigher = {} /\ SeenEqual = {} =>
            /\ ~freeze'
            /\ call'.ons = 0
            /\ call'.offs = (IF freeze THEN 1 ELSE 0)
            /\ call'.log = (IF freeze THEN <<Resuming>> ELSE <<>>)]_vars

\* C4: a call that follows a call given the same peers (the same entries, dead
\* and live, higher and equal as before) makes no toggle call and logs no line.
C4_SecondCallIsSilent ==
    [][CallEnds /\ call'.repeat # "no" =>
            /\ call'.ons = 0
            /\ call'.offs = 0
            /\ freeze' = freeze
            /\ call'.log = <<>>]_vars

\* C4, of a call that follows a returned call: no toggle call, and no line but
\* the conflict warning, which is logged at every call given equal rivals.
C4_SecondCallAfterReturn ==
    [][CallEnds /\ call'.repeat = "returned" /\ call'.out = "returned" =>
            /\ call'.ons = 0
            /\ call'.offs = 0
            /\ freeze' = freeze
            /\ call'.log = (IF call'.peers.prio = {} /\ call'.peers.same # {}
                            THEN <<ConflictWarning(call'.peers.same)>> ELSE <<>>)]_vars

\* C9: a call that awaited clean() ends by returning, with the freeze flag
\* decided from the peers it was given, whether the cleanup patch failed or not.
C9_CleanupFailureContained ==
    [][ppc = "clean" /\ ppc' = "idle" =>
            /\ call'.out = "returned"
            /\ freeze' = (SeenHigher # {} \/ SeenEqual # {})]_vars

\* C5: an operator frozen while every peer of equal or higher priority has
\* stopped announcing, by exit or by crash, resumes in the end.
RivalsStopped == \A p \in Others : peerPrio[p] >= priority => ~peerOn[p]
C5_FrozenResumes == (freeze /\ RivalsStopped) ~> ~freeze

\* ================================================================ keepalive
RemovesSelf == [del |-> {OwnId}, put |-> <<>>]
Cancelled == \E applied \in BOOLEAN : keepalive_cancelled(applied)
RegularWriteFails == \E applied \in BOOLEAN : keepalive_touch_raises(applied)
FinalWriteLine == "exception: Couldn't remove self from the peering. Ignoring."

\* C6: a cancellation of keepalive in its loop, asleep or in a regular write,
\* starts one more write, the first with lifetime 0, whose patch removes the
\* operator's own entry; once that write is started no write is started again,
\* and when the store applies it the own entry is gone.
C6_CancelWritesOnce ==
    [][/\ Cancelled =>
            /\ finals = 0 /\ finals' = 1
            /\ kpc' = "final" /\ shield' = "inflight"
            /\ kpatch' = RemovesSelf
       /\ kpc \in {"final", "done"} =>
            /\ kpc' \in {"final", "done"}
            /\ finals' = finals
            /\ kpatch' \in {kpatch, NoPatch}
       /\ shield = "inflight" /\ shield' = "applied" =>
            OwnId \notin DOMAIN status']_vars

\* C6 happens: keepalive was cancelled, its one final write was applied and the
\* own entry is gone from an object that holds other entries.
C6_Witness ==
    /\ kpc = "done" /\ kexc = "CancelledError" /\ kresult = "CancelledError"
    /\ finals = 1 /\ shield = "applied"
    /\ OwnId \notin DOMAIN status /\ DOMAIN status # {}

\* C7: a cancellation that arrives while the final write is awaited ends
\* keepalive with no error raised (its own cancellation aside), and leaves the
\* write in flight with its patch as it was.
C7_FinalWriteShielded ==
    [][keepalive_final_cancelled =>
            /\ kpc' = "done"
            /\ kresult' \in {"none", "CancelledError"}
            /\ shield' = "inflight" /\ kpatch' = kpatch]_vars

C10_RegularFailureContained ==
    [][RegularWriteFails =>
            /\ kpc' \in {"touch", "sleep"}
            /\ kresult' = "running"
            /\ finals' = finals]_vars

\* C11: a regular write answered "absent" (the peering object is gone) changes
\* nothing in the store, raises and logs nothing, and leaves keepalive asleep
\* in its loop for the usual interval, after which it writes again.
C11_AbsentWriteIsNoop ==
    [][keepalive_touch_returns("absent") =>
            /\ status' = status /\ dirty' = dirty
            /\ kpc' = "sleep" /\ kwake' = now + SleepInterval(lifetime)
            /\ kresult' = "running" /\ kexc' = "none"
            /\ klog' = klog /\ finals' = finals]_vars

\* C11 happens: every write so far was answered "absent", and keepalive is
\* awake again, writing once more.
C11_Witness ==
    /\ kpc = "touch" /\ kwake > 0 /\ kresult = "running"
    /\ OwnId \notin DOMAIN status
    /\ OwnId \in DOMAIN kpatch.put

\* C12: under every configured lifetime the sleep of keepalive is strictly
\* shorter than the lifetime, so that a renewal lands before the deadline of
\* the entry written before it.
C12_SleepShorterThanLifetime ==
    probe.fn = "sleep" => probe.interval < probe.lifetime

\* C12, of the lifetimes of two seconds and more: the same statement.
C12_SleepShorterFromTwo ==
    probe.fn = "sleep" /\ probe.lifetime >= 2 => probe.interval < probe.lifetime

\* C17: a Peer is dead exactly when lastseen + lifetime <= now at its
\* construction, alive when lastseen + lifetime > now; on the deadline itself
\* it is dead, as is a Peer of lifetime 0 seen now.
C17_DeadFromDeadline ==
    probe.fn = "Peer" =>
        /\ probe.peer.is_dead = (probe.lastseen + probe.lifetime <= probe.now)
        /\ ~probe.peer.is_dead = (probe.lastseen + probe.lifetime > probe.now)
        /\ probe.peer.deadline = probe.lastseen + probe.lifetime
        /\ (probe.lifetime = 0 /\ probe.lastseen = probe.now => probe.peer.is_dead)

\* C17 happens: a Peer built on its very deadline, with a lifetime that has
\* run out this second, is dead.
C17_Witness ==
    /\ probe.fn = "Peer"
    /\ probe.lifetime > 0
    /\ probe.lastseen + probe.lifetime = probe.now
    /\ probe.peer.is_dead

C14_OneCleanupPatch ==
    [][/\ ParsedAsGiven
       /\ \A autoclean \in BOOLEAN : process_peering_event(autoclean) =>
            /\ status' = status
            /\ call'.cleans = (IF autoclean /\ Expired # {} THEN 1 ELSE 0)
            /\ (ppc' = "clean") = (autoclean /\ Expired # {})
       /\ ppc = "clean" =>
            /\ call.cleans = 1 /\ call.peers.dead # {}
            /\ call'.cleans = 1 \/ ppc' = "clean"
       /\ clean_returns("ok") =>
            /\ DOMAIN status' = DOMAIN status \ call.peers.dead
            /\ \A i \in DOMAIN status' : status'[i] = status[i]
       /\ clean_returns("absent") \/ clean_raises => status' = status
       /\ CallEnds /\ ppc = "idle" => call'.cleans = 0]_vars

\* C14 happens: one patch of a call removed two expired entries and left a
\* third entry in the object.
C14_Witness ==
    /\ call.out = "returned" /\ call.cleans = 1
    /\ Cardinality(call.peers.dead) >= 2
    /\ call.peers.dead \cap DOMAIN status = {}
    /\ DOMAIN status # {}

\* C15: detect_presence returns None when standalone is configured, mandatory
\* or not; else, the object absent, it raises when mandatory is configured and
\* returns False with a warning when not; the object present, it returns True.
C15_PresenceOutcome ==
    probe.fn = "detect_presence" =>
        /\ probe.standalone => probe.did.out = "None" /\ probe.did.log = <<>>
        /\ ~probe.standalone /\ probe.obj = "absent" /\ probe.mandatory =>
                probe.did.out = "raise"
        /\ ~probe.standalone /\ probe.obj = "absent" /\ ~probe.mandatory =>
                /\ probe.did.out = "False"
                /\ Len(probe.did.log) = 1 /\ probe.did.log[1].level = "warning"
        /\ ~probe.standalone /\ probe.obj = "present" =>
                probe.did.out = "True" /\ probe.did.log = <<>>

\* C15 happens: standalone and mandatory both configured, the object absent,
\* and None returned.
C15_Witness ==
    /\ probe.fn = "detect_presence"
    /\ probe.standalone /\ probe.mandatory /\ probe.obj = "absent"
    /\ probe.did.out = "None"

\* C16: a call of detect_presence reads the peering object exactly once,
\* whatever the read gives, and not at all when standalone is configured.
C16_PresenceReadsOnce ==
    probe.fn = "detect_presence" =>
        probe.did.reads = (IF probe.standalone THEN 0 ELSE 1)

\* C16 happens: the one read found no object, and the call ended on it.
C16_Witness ==
    /\ probe.fn = "detect_presence"
    /\ ~probe.standalone /\ probe.obj = "absent"
    /\ probe.did.reads = 1 /\ probe.did.out \in {"False", "raise"}

\* C19: detect_own_id returns the POD_ID of the environment unchanged, manual
\* or not; without one it returns <user>@<host> and nothing more when manual,
\* and <user>@<host>/<14 digits of the UTC time>/<3 characters of [a-z0-9]>
\* when not.
LowerAlnum ==
    {"a", "b", "c", "d", "e", "f", "g", "h", "i", "j", "k", "l", "m", "n", "o", "p", "q", "r",
     "s", "t", "u", "v", "w", "x", "y", "z", "0", "1", "2", "3", "4", "5", "6", "7", "8", "9"}
RECURSIVE Number(_)
Number(digits) ==
    IF digits = <<>> THEN 0
    ELSE 10 * Number(SubSeq(digits, 1, Len(digits) - 1))
            + (CHOOSE n \in 0..9 : DigitChars[n + 1] = digits[Len(digits)])
UserAtHost == probe.user \o <<"@">> \o probe.host
C19_OwnIdentity ==
    probe.fn = "detect_own_id" =>
        LET id == probe.id
            n == Len(UserAtHost)
            stamp == SubSeq(id, n + 2, n + 15)
            suffix == SubSeq(id, n + 17, Len(id))
        IN  /\ probe.pod.set => id = probe.pod.value
            /\ ~probe.pod.set /\ probe.manual => id = UserAtHost
            /\ ~probe.pod.set /\ ~probe.manual =>
                /\ Len(id) = n + 1 + 14 + 1 + 3
                /\ SubSeq(id, 1, n) = UserAtHost
                /\ id[n + 1] = "/" /\ id[n + 16] = "/"
                /\ \A k \in 1..14 : \E d \in 1..10 : stamp[k] = DigitChars[d]
                /\ Number(SubSeq(stamp, 1, 4)) = probe.dt.Y
                /\ Number(SubSeq(stamp, 5, 6)) = probe.dt.m
                /\ Number(SubSeq(stamp, 7, 8)) = probe.dt.d
                /\ Number(SubSeq(stamp, 9, 10)) = probe.dt.H
                /\ Number(SubSeq(stamp, 11, 12)) = probe.dt.M
                /\ Number(SubSeq(stamp, 13, 14)) = probe.dt.S
                /\ Len(suffix) = 3
                /\ \A k \in 1..3 : suffix[k] \in LowerAlnum

\* C19 happens: a POD_ID was returned unchanged to a caller that asked for a
\* manual identity.
C19_Witness ==
    /\ probe.fn = "detect_own_id"
    /\ probe.pod.set /\ probe.manual
    /\ probe.id = <<"p", "o", "d", "-", "1">>

C20_TouchWritesOwnEntryOnly ==
    [][/\ Keepalive =>
            \A i \in Others :
                /\ (i \in DOMAIN status') = (i \in DOMAIN status)
                /\ i \in DOMAIN status => status'[i] = status[i]
       /\ keepalive_wakes =>
            /\ now + lifetime > now
            /\ kpatch' = [del |-> {},
                          put |-> [i \in {OwnId} |-> [priority |-> priority,
                                                      lastseen |-> now,
                                                      lifetime |-> lifetime]]]
       /\ kpc # "final" /\ kpc' = "final" =>
            /\ now + FinalLifetime <= now
            /\ kpatch' = [del |-> {OwnId}, put |-> <<>>]
       /\ keepalive_touch_returns("ok") =>
            /\ OwnId \in DOMAIN status'
            /\ DOMAIN status'[OwnId] = {"priority", "lastseen", "lifetime"}]_vars

\* C20 happens: the operator's entry was written next to the entries of both
\* other operators, and keepalive sleeps.
C20_Witness ==
    /\ kpc = "sleep" /\ kresult = "running"
    /\ DOMAIN status = Ids
    /\ DOMAIN status[OwnId] = {"priority", "lastseen", "lifetime"}

\* C21: the lists of dead, live, higher and equal peers are those the call
\* made when it parsed the object (lines 121-125, Peer.is_dead of line 78);
\* they stay as they are while the call awaits clean(), whatever the clock and
\* the other writers do meanwhile, and the decision taken when clean() returns
\* is the one these lists give: flag, toggle calls and log lines.
C21_DeadnessFixedAtParse ==
    [][/\ (ppc = "idle" /\ ppc' = "clean")
            => call'.peers = Partition(status, now, OwnId, priority)
       /\ (ppc = "clean" /\ ppc' = "clean") => call'.peers = call.peers
       /\ (ppc = "clean" /\ call'.out = "returned")
            => /\ call'.peers = call.peers
               /\ freeze' = Decide(freeze, call.peers).flag
               /\ call'.ons = Decide(freeze, call.peers).ons
               /\ call'.offs = Decide(freeze, call.peers).offs
               /\ call'.log = Decide(freeze, call.peers).log]_vars

\* C21 happens: a call is suspended in clean() and by now the object and the
\* clock give other lists, and another decision, than the ones it parsed.
C21_Witness ==
    /\ ppc = "clean"
    /\ Partition(status, now, OwnId, priority) # call.peers
    /\ Decide(freeze, Partition(status, now, OwnId, priority)).flag
            # Decide(freeze, call.peers).flag

\* The flag a call leaves that is given the peers pp, finds the flag at f and
\* has cleanup disabled: lines 130-142 right after the parse.
WithoutCleanup(f, pp) == Decide(f, pp).flag

\* C22: a call that has returned, with the cleanup patch sent and served or
\* with no cleanup at all, has left the freeze flag where a call without
\* cleanup leaves it for the same parsed peers, whatever the flag was before:
\* on when a live peer of a higher or of the same priority was parsed, off
\* when none was. The dead peers are in neither list.
C22_FreezeIndependentOfCleanup ==
    call.out = "returned" =>
        /\ \A f \in BOOLEAN : freeze = WithoutCleanup(f, call.peers)
        /\ freeze = (call.peers.prio # {} \/ call.peers.same # {})
        /\ call.peers.dead \cap (call.peers.prio \cup call.peers.same) = {}

\* C22 happens: a call removed a dead peer of a higher priority from the object
\* of a frozen operator and then turned the flag off.
C22_Witness ==
    /\ call.out = "returned" /\ call.cleans = 1 /\ call.offs = 1
    /\ \E i \in call.peers.dead \cap Others : i \notin DOMAIN status /\ peerPrio[i] > priority
    /\ ~freeze

\* C23 as claimed: the cleanup patch of a call, when the store applies it,
\* removes no entry that is live at that moment: an entry its owner has
\* written again since the call parsed it as dead stays in the object.
C23_CleanupSparesRenewed ==
    [][(ppc = "clean" /\ ppc' = "idle")
        => \A i \in DOMAIN status :
              ~Peer(i, status[i], now).is_dead => i \in DOMAIN status']_vars

\* The last call of process_peering_event in every operator of the system has
\* returned, and the object it was given held them all alive.
AllSawAllLive ==
    /\ call.out = "returned" /\ AllLiveIn(call.peers)
    /\ \A p \in Members \ {OwnId} :
          peerCall[p].out = "returned" /\ peerCall[p].alive

\* C24: among operators of priorities that differ from each other, once the
\* last call in each was given an object holding them all alive, the freeze
\* flag is off in the operator of the highest priority and on in every other
\* one; the operator of the highest priority is not frozen by the others.
C24_OnlyHighestRuns ==
    AllSawAllLive =>
        \A i \in Members :
            FreezeOf(i) = (\E j \in Members : PriorityOf(j) > PriorityOf(i))

\* C24 happens: three operators have each processed an object holding all
\* three alive; the modelled one, of the middle priority, is frozen.
C24_Witness ==
    /\ AllSawAllLive
    /\ Members = Ids
    /\ freeze
    /\ \E p \in Others : ~peerFreeze[p]
====
